---- MODULE Spec2Model ----
(***************************************************************************)
(* The job scheduler of src/main.rs: a Scheduler owning a vector of Jobs,  *)
(* the JobBuilder returned by Scheduler::every, and Scheduler::run_pending *)
(* (one tick).  Instants are whole seconds since 1970-01-01T00:00:00Z, a   *)
(* Thursday; Option<T> is a sequence of length 0 (None) or 1 (Some).       *)
(***************************************************************************)
EXTENDS Integers, Sequences, FiniteSets, TLC

VARIABLES
    jobs,        \* Scheduler.jobs: Vec<Job>
    builder,     \* the live JobBuilder (it borrows the scheduler mutably), or None
    now,         \* the value Utc::now() returned in the latest run_pending, or None
    aborted,     \* "no", or where the process panicked: "at", "do_", "task",
                 \* "interval" (a Duration constructor) or "overflow" (*count -= 1)
    invoked,     \* history: per job, how many times (job.task)() was called
    fired,       \* history: the jobs whose task was called by the latest run_pending
    run_dates,   \* history: per job, the dates on which its task was called
    registered,  \* history: per job, the Job value do_ pushed
    main_loop    \* history of main's loop: None, or Some([start, ticks])

vars == <<jobs, builder, now, aborted, invoked, fired, run_dates, registered, main_loop>>

-----------------------------------------------------------------------------
(* Option<T> *)

None == << >>

Some(x) == << x >>

IsSome(o) == o # << >>

Unwrap(o) == o[1]

-----------------------------------------------------------------------------
(* Integer types.  interval is a u64; a u64 v is written q * 2^62 + r with  *)
(* q in 0..4 and r small, so that 0, 1, 2^62 and 2^64 - 1 are all values of *)
(* the model although 2^62 itself is beyond 32-bit arithmetic.              *)

TwoTo62 == [q |-> 1, r |-> 0]

U64Max == [q |-> 4, r |-> -1]

U64(n) == [q |-> 0, r |-> n]

\* `job.interval as i64`: v - 2^64 when v >= 2^63, else v
AsI64(u) ==
    IF u.q >= 3 \/ (u.q = 2 /\ u.r >= 0) THEN [q |-> u.q - 4, r |-> u.r] ELSE u

I32Min == -2147483647 - 1

I32Max == 2147483647

-----------------------------------------------------------------------------
(* chrono: calendar functions of an instant, and Duration's constructors *)

SecsPerMinute == 60

SecsPerHour == 3600

SecsPerDay == 86400

SecsPerWeek == 604800

TimeUnits == {"Hours", "Days", "Minutes", "Seconds", "Weeks"}

Weekdays == <<"Mon", "Tue", "Wed", "Thu", "Fri", "Sat", "Sun">>

\* DateTime::date_naive: the day number of the instant
date_naive(t) == t \div SecsPerDay

\* DateTime::time: the time of day, in seconds since midnight
time(t) == t % SecsPerDay

\* Datelike::weekday: day 0 was a Thursday
weekday(t) == Weekdays[((date_naive(t) + 3) % 7) + 1]

UnitSeconds(unit) ==
    CASE unit = "Seconds" -> 1
      [] unit = "Minutes" -> SecsPerMinute
      [] unit = "Hours" -> SecsPerHour
      [] unit = "Days" -> SecsPerDay
      [] unit = "Weeks" -> SecsPerWeek

\* Duration::seconds / minutes / hours / days / weeks of an i64: Some(seconds),
\* or None when the constructor panics because the count is out of bounds
\* (every count of magnitude 2^62 or more is)
Duration(unit, n) ==
    IF n.q = 0 THEN Some(n.r * UnitSeconds(unit)) ELSE None

\* the interval a job's time_unit and interval stand for (the inner match)
interval_of(job) == Duration(job.time_unit, AsI64(job.interval))

-----------------------------------------------------------------------------
(* NaiveTime::parse_from_str(time_str, "%H:%M"): a string is a sequence of  *)
(* characters; %H and %M take one or two digits each.                      *)

Digits == <<"0", "1", "2", "3", "4", "5", "6", "7", "8", "9">>

IsDigit(c) == \E d \in 1..10 : Digits[d] = c

DigitValue(c) == (CHOOSE d \in 1..10 : Digits[d] = c) - 1

\* how many leading characters of s a two-digit numeric item consumes
NumLen(s) ==
    IF Len(s) >= 1 /\ IsDigit(s[1])
    THEN (IF Len(s) >= 2 /\ IsDigit(s[2]) THEN 2 ELSE 1)
    ELSE 0

NumValue(s, n) ==
    IF n = 2 THEN 10 * DigitValue(s[1]) + DigitValue(s[2]) ELSE DigitValue(s[1])

Drop(s, n) == SubSeq(s, n + 1, Len(s))

\* Some(seconds since midnight) for Ok, None for Err
parse_from_str(s) ==
    LET n1 == NumLen(s)
        s1 == Drop(s, n1)
        s2 == IF s1 # << >> THEN Tail(s1) ELSE << >>
        n2 == NumLen(s2)
    IN  IF n1 = 0 \/ s1 = << >> \/ s1[1] # ":" \/ n2 = 0 \/ Drop(s2, n2) # << >>
        THEN None
        ELSE LET h == NumValue(s, n1)
                 m == NumValue(s2, n2)
             IN  IF h > 23 \/ m > 59 THEN None
                 ELSE Some(h * SecsPerHour + m * SecsPerMinute)

-----------------------------------------------------------------------------
(* Scheduler::new, Scheduler::every and the JobBuilder *)

Init ==
    /\ jobs = << >>
    /\ builder = None
    /\ now = None
    /\ aborted = "no"
    /\ invoked = << >>
    /\ fired = {}
    /\ run_dates = << >>
    /\ registered = << >>
    /\ main_loop = None

Unchanged_scheduler ==
    UNCHANGED <<jobs, now, invoked, fired, run_dates, registered, main_loop>>

every(interval) ==
    /\ aborted = "no"
    /\ builder = None
    /\ builder' = Some([interval |-> interval, time_unit |-> None,
                        at_time |-> None, weekday |-> None, repeat |-> None])
    /\ aborted' = aborted
    /\ Unchanged_scheduler

\* a chained builder method: it takes the builder and returns it changed
Chain(b) ==
    /\ aborted = "no"
    /\ IsSome(builder)
    /\ builder' = Some(b)
    /\ aborted' = aborted
    /\ Unchanged_scheduler

seconds == IsSome(builder) /\ Chain([Unwrap(builder) EXCEPT !.time_unit = Some("Seconds")])

minutes == IsSome(builder) /\ Chain([Unwrap(builder) EXCEPT !.time_unit = Some("Minutes")])

days == IsSome(builder) /\ Chain([Unwrap(builder) EXCEPT !.time_unit = Some("Days")])

hours == IsSome(builder) /\ Chain([Unwrap(builder) EXCEPT !.time_unit = Some("Hours")])

week == IsSome(builder) /\ Chain([Unwrap(builder) EXCEPT !.time_unit = Some("Weeks")])

\* at(time_str): the unwrap of a parse error panics
at(time_str) ==
    /\ aborted = "no"
    /\ IsSome(builder)
    /\ LET parsed == parse_from_str(time_str)
       IN  IF IsSome(parsed)
           THEN /\ builder' = Some([Unwrap(builder) EXCEPT !.at_time = parsed])
                /\ aborted' = aborted
           ELSE /\ builder' = None
                /\ aborted' = "at"
    /\ Unchanged_scheduler

monday == IsSome(builder) /\ Chain([Unwrap(builder) EXCEPT !.weekday = Some("Mon")])

tuesday == IsSome(builder) /\ Chain([Unwrap(builder) EXCEPT !.weekday = Some("Tue")])

wednesday == IsSome(builder) /\ Chain([Unwrap(builder) EXCEPT !.weekday = Some("Wed")])

thursday == IsSome(builder) /\ Chain([Unwrap(builder) EXCEPT !.weekday = Some("Thu")])

friday == IsSome(builder) /\ Chain([Unwrap(builder) EXCEPT !.weekday = Some("Fri")])

saturday == IsSome(builder) /\ Chain([Unwrap(builder) EXCEPT !.weekday = Some("Sat")])

sunday == IsSome(builder) /\ Chain([Unwrap(builder) EXCEPT !.weekday = Some("Sun")])

repeat(count) == IsSome(builder) /\ Chain([Unwrap(builder) EXCEPT !.repeat = Some(count)])

\* the Job do_ builds from a builder whose time_unit is set
new_job(b) ==
    [interval |-> b.interval, time_unit |-> Unwrap(b.time_unit),
     at_time |-> b.at_time, last_run |-> None, weekday |-> b.weekday,
     remaining_runs |-> b.repeat]

\* a variant of do_ that falls back to Seconds when no unit was chosen
do_defaulting ==
    /\ aborted = "no"
    /\ IsSome(builder)
    /\ builder' = None
    /\ UNCHANGED <<now, fired, main_loop, aborted>>
    /\ LET b == IF IsSome(Unwrap(builder).time_unit) THEN Unwrap(builder)
                ELSE [Unwrap(builder) EXCEPT !.time_unit = Some("Seconds")]
       IN  /\ jobs' = Append(jobs, new_job(b))
           /\ invoked' = Append(invoked, 0)
           /\ run_dates' = Append(run_dates, {})
           /\ registered' = Append(registered, new_job(b))

\* do_(job_fn): self.time_unit.unwrap() panics when no unit was chosen
do_ ==
    /\ aborted = "no"
    /\ IsSome(builder)
    /\ builder' = None
    /\ UNCHANGED <<now, fired, main_loop>>
    /\ IF IsSome(Unwrap(builder).time_unit)
       THEN /\ jobs' = Append(jobs, new_job(Unwrap(builder)))
            /\ invoked' = Append(invoked, 0)
            /\ run_dates' = Append(run_dates, {})
            /\ registered' = Append(registered, new_job(Unwrap(builder)))
            /\ aborted' = aborted
       ELSE /\ aborted' = "do_"
            /\ UNCHANGED <<jobs, invoked, run_dates, registered>>

-----------------------------------------------------------------------------
(* Scheduler::run_pending: the gates one job passes, in the code's order *)

\* a variant of exhausted that stops one run early
exhausted_at_one(job) == job.remaining_runs = Some(1)

\* `if let Some(0) = job.remaining_runs { continue; }`
exhausted(job) == job.remaining_runs = Some(0)

\* a variant of wrong_day without the weekday gate
wrong_day_unchecked(job, t) == FALSE

\* the weekday gate
wrong_day(job, t) == IsSome(job.weekday) /\ weekday(t) # Unwrap(job.weekday)

\* building the interval panics (only reached when last_run is Some)
interval_panics(job) == IsSome(job.last_run) /\ interval_of(job) = None

\* a variant of should_run that holds a job back until it has a last_run
should_run_after_first(job, t) ==
    IF job.last_run = None THEN FALSE
    ELSE LET elapsed == t - Unwrap(job.last_run)
         IN  elapsed >= Unwrap(interval_of(job))

\* a variant of should_run that wants more than the interval to have elapsed
should_run_strict(job, t) ==
    IF job.last_run = None THEN TRUE
    ELSE LET elapsed == t - Unwrap(job.last_run)
         IN  elapsed > Unwrap(interval_of(job))

\* `let should_run = match job.last_run { ... elapsed >= interval }`
should_run(job, t) ==
    IF job.last_run = None THEN TRUE
    ELSE LET elapsed == t - Unwrap(job.last_run)
         IN  elapsed >= Unwrap(interval_of(job))

\* a variant of too_early with the comparison turned round
too_early_flipped(job, t) == IsSome(job.at_time) /\ time(t) > Unwrap(job.at_time)

\* `if now.time() < at_time { continue; }`
too_early(job, t) == IsSome(job.at_time) /\ time(t) < Unwrap(job.at_time)

\* the Days | Weeks arm: last_run.date_naive() == now.date_naive()
same_date(job, t) ==
    /\ IsSome(job.at_time)
    /\ IsSome(job.last_run)
    /\ job.time_unit \in {"Days", "Weeks"}
    /\ date_naive(Unwrap(job.last_run)) = date_naive(t)

\* what the loop body does with one job at instant t
decision(job, t) ==
    IF exhausted(job) THEN "skip"
    ELSE IF wrong_day(job, t) THEN "skip"
    ELSE IF interval_panics(job) THEN "panic"
    ELSE IF ~should_run(job, t) THEN "skip"
    ELSE IF too_early(job, t) THEN "skip"
    ELSE IF same_date(job, t) THEN "skip"
    ELSE "fire"

\* `*count -= 1` on an i32: at i32::MIN a build with overflow checks panics,
\* a build without them wraps.  None stands for the panic.
decrement(count, overflow_checks) ==
    IF count = I32Min
    THEN (IF overflow_checks THEN None ELSE Some(I32Max))
    ELSE Some(count - 1)

\* a variant of fire that records the run before it calls the task
fire_recording_first(job, t, task_panics, overflow_checks) ==
    LET ran == [job EXCEPT !.last_run = Some(t)]
        count == IF job.remaining_runs = None THEN None
                 ELSE decrement(Unwrap(job.remaining_runs), overflow_checks)
    IN  IF IsSome(job.remaining_runs) /\ count = None
        THEN [job |-> ran, abort |-> "overflow"]
        ELSE [job |-> [ran EXCEPT !.remaining_runs = count],
              abort |-> IF task_panics THEN "task" ELSE "no"]

\* lines 186-190: call the task, then record the run.  task_panics: the task
\* panics in this call.  [job: the job afterwards, abort: "no" or the panic]
fire(job, t, task_panics, overflow_checks) ==
    IF task_panics THEN [job |-> job, abort |-> "task"]
    ELSE LET ran == [job EXCEPT !.last_run = Some(t)]
         IN  IF job.remaining_runs = None THEN [job |-> ran, abort |-> "no"]
             ELSE LET count == decrement(Unwrap(job.remaining_runs), overflow_checks)
                  IN  IF count = None THEN [job |-> ran, abort |-> "overflow"]
                      ELSE [job |-> [ran EXCEPT !.remaining_runs = count],
                            abort |-> "no"]

\* a variant of run_from that leaves the loop after the first job it calls
RECURSIVE run_from_first_due(_, _, _, _, _)
run_from_first_due(st, i, t, panicking, overflow_checks) ==
    IF i > Len(st.jobs) THEN st
    ELSE LET d == decision(st.jobs[i], t)
         IN  IF d = "skip"
             THEN run_from_first_due(st, i + 1, t, panicking, overflow_checks)
             ELSE IF d = "panic" THEN [st EXCEPT !.aborted = "interval"]
             ELSE LET r == fire(st.jobs[i], t, i \in panicking, overflow_checks)
                  IN  [jobs |-> [st.jobs EXCEPT ![i] = r.job],
                       invoked |-> [st.invoked EXCEPT ![i] = @ + 1],
                       fired |-> st.fired \cup {i},
                       run_dates |-> [st.run_dates EXCEPT
                                        ![i] = @ \cup {date_naive(t)}],
                       aborted |-> r.abort]

\* `for job in &mut self.jobs`, from index i on; st holds the scheduler's
\* jobs and the history of the tick so far
RECURSIVE run_from(_, _, _, _, _)
run_from(st, i, t, panicking, overflow_checks) ==
    IF i > Len(st.jobs) THEN st
    ELSE LET d == decision(st.jobs[i], t)
         IN  IF d = "skip" THEN run_from(st, i + 1, t, panicking, overflow_checks)
             ELSE IF d = "panic" THEN [st EXCEPT !.aborted = "interval"]
             ELSE LET r == fire(st.jobs[i], t, i \in panicking, overflow_checks)
                      st1 == [jobs |-> [st.jobs EXCEPT ![i] = r.job],
                              invoked |-> [st.invoked EXCEPT ![i] = @ + 1],
                              fired |-> st.fired \cup {i},
                              run_dates |-> [st.run_dates EXCEPT
                                               ![i] = @ \cup {date_naive(t)}],
                              aborted |-> r.abort]
                  IN  IF r.abort # "no" THEN st1
                      ELSE run_from(st1, i + 1, t, panicking, overflow_checks)

\* seq without the entries at the positions of the exhausted jobs of js
RECURSIVE without_exhausted(_, _)
without_exhausted(seq, js) ==
    IF js = << >> THEN << >>
    ELSE IF exhausted(Head(js)) THEN without_exhausted(Tail(seq), Tail(js))
    ELSE <<Head(seq)>> \o without_exhausted(Tail(seq), Tail(js))

\* a variant of run_pending that drops the exhausted jobs after the loop
run_pending_pruning(t, panicking, overflow_checks) ==
    /\ aborted = "no"
    /\ builder = None
    /\ LET st == run_from([jobs |-> jobs, invoked |-> invoked, fired |-> {},
                           run_dates |-> run_dates, aborted |-> "no"],
                          1, t, panicking, overflow_checks)
       IN  /\ jobs' = without_exhausted(st.jobs, st.jobs)
           /\ invoked' = without_exhausted(st.invoked, st.jobs)
           /\ fired' = st.fired
           /\ run_dates' = without_exhausted(st.run_dates, st.jobs)
           /\ aborted' = st.aborted
    /\ now' = Some(t)
    /\ UNCHANGED <<builder, registered>>

\* run_pending with Utc::now() = t; panicking: the jobs whose task panics if
\* called in this tick.  No builder is alive: it would hold the &mut borrow.
run_pending(t, panicking, overflow_checks) ==
    /\ aborted = "no"
    /\ builder = None
    /\ LET st == run_from([jobs |-> jobs, invoked |-> invoked, fired |-> {},
                           run_dates |-> run_dates, aborted |-> "no"],
                          1, t, panicking, overflow_checks)
       IN  /\ jobs' = st.jobs
           /\ invoked' = st.invoked
           /\ fired' = st.fired
           /\ run_dates' = st.run_dates
           /\ aborted' = st.aborted
    /\ now' = Some(t)
    /\ UNCHANGED <<builder, registered>>

-----------------------------------------------------------------------------
(* The inputs explored *)

\* the task may be called this many times per job before ticks stop
MaxInvoked == 3

Instant(day, h, m, s) == day * SecsPerDay + h * SecsPerHour + m * SecsPerMinute + s

\* 1970-01-06 was a Tuesday, 1970-01-07 a Wednesday, 1970-01-13 a Tuesday
Instants ==
    { Instant(5, 19, 23, 59), Instant(5, 19, 24, 0), Instant(5, 19, 24, 1),
      Instant(5, 19, 25, 0), Instant(5, 20, 0, 0), Instant(5, 20, 24, 0),
      Instant(6, 19, 23, 59), Instant(6, 19, 24, 0), Instant(6, 19, 25, 0),
      Instant(12, 19, 23, 59), Instant(12, 19, 24, 0) }

Intervals == { U64(0), U64(1), TwoTo62, U64Max }

RepeatCounts == { -1, 0, 2, I32Min }

AtLiterals == { <<"1", "9", ":", "2", "4">>, <<"7", "p", "m">> }

CanTick == \A i \in 1..Len(jobs) : invoked[i] < MaxInvoked

\* the jobs a tick at t calls: only their tasks can panic in it
Due(t) == { i \in 1..Len(jobs) : decision(jobs[i], t) = "fire" }

\* the builds worth telling apart: overflow checks matter only at i32::MIN
Builds ==
    IF \E i \in 1..Len(jobs) : jobs[i].remaining_runs = Some(I32Min)
    THEN BOOLEAN ELSE {TRUE}

\* one job is registered through the builder and then ticked, as main does
Next ==
    \/ \E interval \in Intervals : jobs = << >> /\ every(interval)
    \/ seconds
    \/ minutes
    \/ days
    \/ hours
    \/ week
    \/ \E time_str \in AtLiterals : at(time_str)
    \/ monday
    \/ tuesday
    \/ wednesday
    \/ thursday
    \/ friday
    \/ saturday
    \/ sunday
    \/ \E count \in RepeatCounts : repeat(count)
    \/ do_
    \/ \E t \in Instants : \E panicking \in SUBSET Due(t), oc \in Builds :
          CanTick /\ run_pending(t, panicking, oc) /\ main_loop' = main_loop

Spec == Init /\ [][Next]_vars

-----------------------------------------------------------------------------
(* main: every(3).seconds().repeat(3).do_(..), then run_pending and a sleep  *)
(* of one second, for ever.  thread::sleep returns after the second or      *)
(* later: the next tick's now is 1 or 2 seconds after this one's.           *)

\* ticks of main's loop explored
MaxTicks == 10

MainStart == Instant(5, 19, 24, 0)

SleepSeconds == {1, 2}

\* one iteration of `loop { scheduler.run_pending(); sleep(1s) }` with now = t
loop_tick(t) ==
    /\ \E panicking \in SUBSET Due(t), oc \in Builds : run_pending(t, panicking, oc)
    /\ main_loop' = IF main_loop = None THEN Some([start |-> t, ticks |-> 1])
                    ELSE Some([Unwrap(main_loop) EXCEPT !.ticks = @ + 1])

NextMain ==
    \/ jobs = << >> /\ every(U64(3))
    \/ IsSome(builder) /\ Unwrap(builder).time_unit = None /\ seconds
    \/ IsSome(builder) /\ IsSome(Unwrap(builder).time_unit)
          /\ Unwrap(builder).repeat = None /\ repeat(3)
    \/ IsSome(builder) /\ IsSome(Unwrap(builder).repeat) /\ do_
    \/ jobs # << >> /\ main_loop = None /\ loop_tick(MainStart)
    \/ IsSome(main_loop) /\ Unwrap(main_loop).ticks < MaxTicks
          /\ \E slept \in SleepSeconds : loop_tick(Unwrap(now) + slept)

SpecMain == Init /\ [][NextMain]_vars

-----------------------------------------------------------------------------
(* Several jobs in one scheduler: main's `scheduler.every(..)...do_(..)` more *)
(* than once, then ticks                                                     *)

\* jobs registered in one scheduler
MaxJobs == 2

PairIntervals == { U64(1), TwoTo62 }

PairRepeats == { 1, I32Min }

\* a Tuesday and the second after it
PairInstants == { Instant(5, 19, 24, 0), Instant(5, 19, 24, 1) }

NextPair ==
    \/ \E interval \in PairIntervals : Len(jobs) < MaxJobs /\ every(interval)
    \/ seconds
    \/ wednesday
    \/ \E count \in PairRepeats : repeat(count)
    \/ do_
    \/ \E t \in PairInstants : \E panicking \in SUBSET Due(t), oc \in Builds :
          CanTick /\ run_pending(t, panicking, oc) /\ main_loop' = main_loop

SpecPair == Init /\ [][NextPair]_vars

-----------------------------------------------------------------------------
(* main's loop never stops calling run_pending: one job of any interval in   *)
(* seconds, with or without repeat, and a loop that keeps ticking            *)

LiveIntervals == { U64(0), U64(1), U64(3), TwoTo62, U64Max }

LiveRepeats == { 0, 2 }

\* `loop { scheduler.run_pending(); thread::sleep(1s) }`
LiveTick ==
    \/ jobs # << >> /\ main_loop = None /\ loop_tick(MainStart)
    \/ IsSome(main_loop) /\ Unwrap(main_loop).ticks < MaxTicks
          /\ \E slept \in SleepSeconds : loop_tick(Unwrap(now) + slept)

NextLive ==
    \/ \E interval \in LiveIntervals : jobs = << >> /\ every(interval)
    \/ seconds
    \/ \E count \in LiveRepeats : repeat(count)
    \/ do_
    \/ LiveTick

SpecLive == Init /\ [][NextLive]_vars /\ WF_vars(LiveTick)

-----------------------------------------------------------------------------
(* Vocabulary of the properties *)

Jobs == 1..Len(jobs)

\* a step of run_pending (no builder is alive before or after it)
Ticked == builder = None /\ builder' = None /\ aborted = "no" /\ IsSome(now')

\* the instant of the tick a Ticked step takes
Now == Unwrap(now')

\* the job is as it was before the step
Untouched(i) == jobs'[i] = jobs[i] /\ invoked'[i] = invoked[i]

unit_duration(unit) ==
    CASE unit = "Seconds" -> 1
      [] unit = "Minutes" -> 60
      [] unit = "Hours" -> 3600
      [] unit = "Days" -> 86400
      [] unit = "Weeks" -> 604800

\* elapsed >= interval * unit_duration(time_unit), interval being the number
\* the caller gave: one of 2^62 or more exceeds every elapsed time explored
Spaced(job, elapsed) ==
    job.interval.q = 0 /\ elapsed >= job.interval.r * unit_duration(job.time_unit)

\* interval * unit_duration(time_unit) > 0
ThresholdPositive(job) == job.interval.q > 0 \/ job.interval.r > 0

\* the interval is below 2^63, so that `as i64` keeps it
FitsI64(job) == job.interval.q < 2

AtHM(h, m) == h * 3600 + m * 60

-----------------------------------------------------------------------------
(* C1 .. C10 *)

\* C1: a job registered with repeat(N) is called at most N times over any
\* ticks: once it has been called N times (or more), no tick calls it.
C1_AtMostNFirings ==
    [][\A i \in Jobs :
          (/\ IsSome(registered[i].remaining_runs)
           /\ invoked[i] >= Unwrap(registered[i].remaining_runs))
          => invoked'[i] = invoked[i]]_vars

\* C2: a job with no weekday, at_time or repeat limit that fired at t1 and
\* fires at t2 > t1 has t2 - t1 >= interval * unit_duration(time_unit).
C2_Spacing ==
    [][Ticked =>
         \A i \in Jobs :
            (/\ jobs[i].weekday = None /\ jobs[i].at_time = None
             /\ jobs[i].remaining_runs = None
             /\ i \in fired'
             /\ IsSome(jobs[i].last_run)
             /\ Unwrap(jobs[i].last_run) < Now)
            => Spaced(jobs[i], Now - Unwrap(jobs[i].last_run))]_vars

\* C3: a tick whose weekday is not the job's weekday does not call the job
\* and leaves its last_run and remaining_runs as they were.
C3_WeekdayGate ==
    [][Ticked =>
         \A i \in Jobs :
            (IsSome(jobs[i].weekday) /\ weekday(Now) # Unwrap(jobs[i].weekday))
            => /\ i \notin fired'
               /\ jobs'[i].last_run = jobs[i].last_run
               /\ jobs'[i].remaining_runs = jobs[i].remaining_runs]_vars

\* C4: a job with at_time T and unit Days or Weeks is called at most once on
\* any calendar date, and never by a tick whose time of day is before T.
C4_OncePerDate ==
    [][Ticked =>
         \A i \in Jobs :
            (/\ IsSome(jobs[i].at_time)
             /\ jobs[i].time_unit \in {"Days", "Weeks"}
             /\ i \in fired')
            => /\ date_naive(Now) \notin run_dates[i]
               /\ time(Now) >= Unwrap(jobs[i].at_time)]_vars

\* C5: remaining_runs, when present, is never negative.
C5_RemainingNeverNegative ==
    \A i \in Jobs :
       IsSome(jobs[i].remaining_runs) => Unwrap(jobs[i].remaining_runs) >= 0

\* C6: last_run never moves backward and is never reset to None, and a tick
\* calls a job at most once.
C6_LastRunMonotonic ==
    [][\A i \in Jobs :
          /\ invoked'[i] <= invoked[i] + 1
          /\ IsSome(jobs[i].last_run)
             => /\ IsSome(jobs'[i].last_run)
                /\ Unwrap(jobs'[i].last_run) >= Unwrap(jobs[i].last_run)]_vars

\* the job whose task a tick unwinding with "task" was in: the last one called
Panicker(called) == CHOOSE i \in called : \A k \in called : k <= i

\* C7: the run is recorded after the task returns: a job whose task panicked
\* keeps the last_run and remaining_runs it had before the tick, and a job
\* whose task returned has last_run = now.
C7_RecordedAfterReturn ==
    [][Ticked =>
         \A i \in fired' :
            /\ invoked'[i] = invoked[i] + 1
            /\ IF aborted' = "task" /\ i = Panicker(fired')
               THEN /\ jobs'[i].last_run = jobs[i].last_run
                    /\ jobs'[i].remaining_runs = jobs[i].remaining_runs
               ELSE jobs'[i].last_run = now']_vars

\* C8: of two consecutive ticks with the same now, the second calls no job
\* the first called, unless the job's interval * unit_duration is 0.
C8_SameNowSkips ==
    [][(Ticked /\ now' = now) =>
         \A i \in fired : ThresholdPositive(jobs[i]) => i \notin fired']_vars

\* the job of scenario B, having run at 19:24:00 of some day
ScenarioB(job) ==
    /\ job.time_unit = "Days" /\ job.interval = U64(1)
    /\ job.at_time = Some(AtHM(19, 24))
    /\ job.weekday = None
    /\ job.remaining_runs # Some(0)
    /\ IsSome(job.last_run)
    /\ time(Unwrap(job.last_run)) = AtHM(19, 24)

\* C10: every(1).days().at("19:24"), last run at 19:24: a later tick of the
\* same day skips it, a tick at 19:25 of the next day calls it.
C10_ScenarioB ==
    [][Ticked =>
         \A i \in Jobs :
            ScenarioB(jobs[i]) =>
               LET last == Unwrap(jobs[i].last_run)
               IN  /\ (date_naive(Now) = date_naive(last) /\ Now > last)
                        => (i \notin fired' /\ Untouched(i))
                   /\ (date_naive(Now) = date_naive(last) + 1
                         /\ time(Now) = AtHM(19, 25))
                        => i \in fired']_vars

\* main's loop has ticked once per second since its first tick, and runs
Steady ==
    /\ IsSome(main_loop)
    /\ aborted = "no"
    /\ Unwrap(now) = Unwrap(main_loop).start + Unwrap(main_loop).ticks - 1

\* seconds since main's first tick
Elapsed == Unwrap(now) - Unwrap(main_loop).start

\* C9: every(3).seconds().repeat(3) ticked at t = 0, 1, 2, ..: called exactly
\* at t = 0, 3 and 6, remaining_runs going 3, 2, 1, 0.
C9_ScenarioA ==
    Steady =>
       LET n == IF Elapsed >= 6 THEN 3 ELSE (Elapsed \div 3) + 1
       IN  /\ invoked[1] = n
           /\ jobs[1].remaining_runs = Some(3 - n)
           /\ jobs[1].last_run = Some(Unwrap(main_loop).start + 3 * (n - 1))
           /\ (1 \in fired) = (Elapsed \in {0, 3, 6})

-----------------------------------------------------------------------------
(* Reachable states in which the properties above have something to say *)

\* a Tuesday job that has run is skipped by a Wednesday tick every other
\* gate would let through
C3_Witness ==
    /\ IsSome(now) /\ aborted = "no" /\ fired = {}
    /\ \E i \in Jobs :
          /\ jobs[i].weekday = Some("Tue") /\ jobs[i].time_unit = "Weeks"
          /\ jobs[i].at_time = Some(AtHM(19, 24))
          /\ IsSome(jobs[i].last_run)
          /\ weekday(Unwrap(now)) = "Wed"
          /\ ~exhausted(jobs[i]) /\ ~interval_panics(jobs[i])
          /\ should_run(jobs[i], Unwrap(now))
          /\ ~too_early(jobs[i], Unwrap(now)) /\ ~same_date(jobs[i], Unwrap(now))

\* the second call of a repeat(2) job's task panicked: the job keeps the
\* first run's last_run and remaining_runs
C7_Witness ==
    /\ aborted = "task"
    /\ \E i \in fired :
          /\ invoked[i] = 2
          /\ registered[i].remaining_runs = Some(2)
          /\ jobs[i].remaining_runs = Some(1)
          /\ IsSome(jobs[i].last_run) /\ jobs[i].last_run # now

\* the third call has happened at t = 6 and the ticks up to t = 9 skipped
C9_Witness ==
    /\ Steady /\ Elapsed = 9
    /\ invoked[1] = 3 /\ jobs[1].remaining_runs = Some(0) /\ fired = {}

\* the job of scenario B called again on Wednesday at 19:25
C10_Witness ==
    /\ aborted = "no"
    /\ now = Some(Instant(6, 19, 25, 0))
    /\ \E i \in fired :
          /\ ScenarioB([jobs[i] EXCEPT !.last_run = Some(Instant(5, 19, 24, 0))])
          /\ jobs[i].last_run = now
          /\ run_dates[i] = {5, 6}

-----------------------------------------------------------------------------
(* C11 .. C20 *)

\* elapsed = interval * unit_duration(time_unit) exactly
AtThreshold(job, elapsed) ==
    job.interval.q = 0 /\ elapsed = job.interval.r * unit_duration(job.time_unit)

\* C11: a job with no at_time and no weekday, not exhausted, is called by the
\* tick at exactly last_run + interval * unit_duration, and is skipped by
\* every tick with now - last_run below that threshold.
C11_NonStrictGate ==
    [][Ticked =>
         \A i \in Jobs :
            (/\ jobs[i].at_time = None /\ jobs[i].weekday = None
             /\ jobs[i].remaining_runs # Some(0)
             /\ IsSome(jobs[i].last_run))
            => LET elapsed == Now - Unwrap(jobs[i].last_run)
               IN  /\ AtThreshold(jobs[i], elapsed) => i \in fired'
                   /\ ~Spaced(jobs[i], elapsed)
                        => (i \notin fired' /\ Untouched(i))]_vars

\* the decision the specification describes, the interval taken as a number
ReferenceFires(job, t) ==
    /\ job.remaining_runs # Some(0)
    /\ job.weekday = None \/ weekday(t) = Unwrap(job.weekday)
    /\ job.last_run = None \/ Spaced(job, t - Unwrap(job.last_run))
    /\ \/ job.at_time = None
       \/ /\ time(t) >= Unwrap(job.at_time)
          /\ ~(/\ IsSome(job.last_run)
               /\ job.time_unit \in {"Days", "Weeks"}
               /\ date_naive(Unwrap(job.last_run)) = date_naive(t))

\* C13: a tick calls a job exactly when the reference decision says Fire.
C13_MatchesReference ==
    [][Ticked =>
         \A i \in Jobs : (i \in fired') = ReferenceFires(jobs[i], Now)]_vars

\* C14: a job that never ran and is not exhausted is called by a tick exactly
\* when its weekday gate and its at_time gate pass, whatever its interval
\* and unit.
C14_FirstFiring ==
    [][Ticked =>
         \A i \in Jobs :
            (jobs[i].last_run = None /\ jobs[i].remaining_runs # Some(0))
            => (i \in fired') =
                  (/\ jobs[i].weekday = None \/ weekday(Now) = Unwrap(jobs[i].weekday)
                   /\ jobs[i].at_time = None \/ time(Now) >= Unwrap(jobs[i].at_time))]_vars

\* C18: for every rule, a job last run at t1 that a tick calls at t2 has
\* t2 - t1 >= interval * unit_duration, also when now steps backward.
C18_SpacingEveryRule ==
    [][Ticked =>
         \A i \in Jobs :
            (i \in fired' /\ IsSome(jobs[i].last_run))
            => Spaced(jobs[i], Now - Unwrap(jobs[i].last_run))]_vars

\* C19: for a Days or Weeks job with at_time and interval >= 1, whenever the
\* interval gate and the at_time gate pass with last_run present, last_run's
\* date differs from now's date: the same-date check suppresses nothing.
C19_SameDateRedundant ==
    [][Ticked =>
         \A i \in Jobs :
            (/\ IsSome(jobs[i].at_time)
             /\ jobs[i].time_unit \in {"Days", "Weeks"}
             /\ ThresholdPositive(jobs[i])
             /\ IsSome(jobs[i].last_run)
             /\ ~interval_panics(jobs[i])
             /\ should_run(jobs[i], Now)
             /\ ~too_early(jobs[i], Now))
            => date_naive(Unwrap(jobs[i].last_run)) # date_naive(Now)]_vars

\* a never-run Tuesday 19:24 job of interval 2^62 weeks, called by its first
\* Tuesday tick at or after 19:24
C14_Witness ==
    /\ aborted = "no"
    /\ \E i \in fired :
          /\ invoked[i] = 1
          /\ jobs[i].interval = TwoTo62 /\ jobs[i].time_unit = "Weeks"
          /\ jobs[i].weekday = Some("Tue")
          /\ jobs[i].at_time = Some(AtHM(19, 24))
          /\ jobs[i].last_run = Some(Instant(12, 19, 24, 0))

\* C12: do_ on a builder with no time unit fails (the unwrap panics) and
\* registers nothing: the scheduler's jobs are the same after it as before.
C12_NoUnitFails ==
    [][(IsSome(builder) /\ builder' = None /\ Unwrap(builder).time_unit = None)
         => /\ aborted' = "do_"
            /\ jobs' = jobs
            /\ registered' = registered]_vars

\* the job that cut the tick short: its interval computation panicked, or
\* its task or its counter did after it was called
Cut(p) ==
    \/ decision(jobs[p], Now) = "panic"
    \/ aborted' \in {"task", "overflow"} /\ fired' # {} /\ p = Panicker(fired')

\* C15 as stated: in every tick each job is called exactly when its own rule,
\* history and now say so, whatever the other jobs are and do, and a job the
\* tick skips keeps its last_run and remaining_runs.
C15_Independent ==
    [][Ticked =>
         \A i \in Jobs :
            /\ (i \in fired') = (decision(jobs[i], Now) = "fire")
            /\ i \notin fired' => Untouched(i)]_vars

\* C15, amended: a tick leaves every job it does not call untouched and calls
\* only jobs whose own rule, history and now say fire; a job whose own
\* decision is fire is passed over only when a panic in an earlier job (its
\* task, its interval computation or its counter) cut the tick short, and no
\* job after the one that panicked is called.
C15_IndependentUntilPanic ==
    [][Ticked =>
         \A i \in Jobs :
            /\ i \notin fired' => Untouched(i)
            /\ i \in fired' => decision(jobs[i], Now) = "fire"
            /\ (decision(jobs[i], Now) = "fire" /\ i \notin fired')
                 => aborted' # "no" /\ \E p \in 1..(i - 1) : Cut(p)
            /\ Cut(i) => \A k \in (i + 1)..Len(jobs) : k \notin fired']_vars

\* the rule of a job
Rule(job) ==
    [interval |-> job.interval, time_unit |-> job.time_unit,
     at_time |-> job.at_time, weekday |-> job.weekday]

\* C16: a tick keeps the number and the order of the jobs and every job's
\* rule; the collection changes only by do_, which appends one job; a job
\* with remaining_runs = 0 stays as it is.
C16_CollectionFrame ==
    [][/\ Len(jobs') >= Len(jobs)
       /\ \A i \in Jobs :
             /\ Rule(jobs'[i]) = Rule(jobs[i])
             /\ exhausted(jobs[i]) => jobs'[i] = jobs[i]
       /\ Ticked => Len(jobs') = Len(jobs)
       /\ Len(jobs') # Len(jobs)
            => /\ IsSome(builder) /\ builder' = None
               /\ jobs' = Append(jobs, new_job(Unwrap(builder)))]_vars

\* a failed do_ on a scheduler that holds a job
C12_Witness == aborted = "do_" /\ Len(jobs) = 1 /\ builder = None

\* both jobs called in one tick that returned
C15_Witness ==
    /\ aborted = "no" /\ Len(jobs) = 2 /\ fired = {1, 2}
    /\ jobs[1].interval # jobs[2].interval

\* job 1 exhausted by an earlier tick, still first after a tick that called
\* job 2
C16_Witness ==
    /\ Len(jobs) = 2 /\ fired = {2} /\ aborted = "no"
    /\ jobs[1].remaining_runs = Some(0) /\ invoked[1] = 1
    /\ Rule(jobs[1]) = Rule(registered[1])
    /\ invoked[2] = 2

\* the calls of job i's task that returned, in the state before / after a step
Firings(i) ==
    invoked[i] - (IF aborted = "task" /\ i = Panicker(fired) THEN 1 ELSE 0)

\* job i's task was called by this step's tick and returned
Fired(i) ==
    Ticked /\ i \in fired' /\ ~(aborted' = "task" /\ i = Panicker(fired'))

\* C17: remaining_runs is present exactly for the jobs built with repeat(..),
\* each firing lowers it by exactly 1 (to a number an i32 holds), no other
\* step changes it, and for repeat(N), N >= 0, remaining_runs + firings = N
\* in every state.
C17_RemainingAccounting ==
    [][\A i \in Jobs :
          /\ IsSome(jobs[i].remaining_runs) = IsSome(registered[i].remaining_runs)
          /\ IF Fired(i) /\ IsSome(jobs[i].remaining_runs)
             THEN /\ Unwrap(jobs[i].remaining_runs) > I32Min
                  /\ jobs'[i].remaining_runs
                       = Some(Unwrap(jobs[i].remaining_runs) - 1)
             ELSE jobs'[i].remaining_runs = jobs[i].remaining_runs
          /\ (IsSome(registered[i].remaining_runs)
                /\ Unwrap(registered[i].remaining_runs) >= 0)
               => Unwrap(jobs[i].remaining_runs) + Firings(i)
                    = Unwrap(registered[i].remaining_runs)]_vars

\* ticks the loop has still to make within the horizon explored
TicksLeft == MaxTicks - (IF main_loop = None THEN 0 ELSE Unwrap(main_loop).ticks)

\* ticks that bring now to last_run + interval * unit_duration at the latest:
\* every tick is at least a second after the one before
TicksToDue(job) ==
    IF job.interval.r * unit_duration(job.time_unit) > 1
    THEN job.interval.r * unit_duration(job.time_unit) ELSE 1

\* a registered job with no weekday and no at_time whose interval the
\* remaining ticks can cover n times
Covered(i, n) ==
    /\ i \in Jobs
    /\ jobs[i].weekday = None /\ jobs[i].at_time = None
    /\ jobs[i].interval.q = 0
    /\ n * TicksToDue(jobs[i]) <= TicksLeft

\* the job has made k firings, is not exhausted and can be due again
\* within the horizon
Awaiting(k) ==
    IF jobs = << >> THEN FALSE
    ELSE /\ Covered(1, 1) /\ aborted = "no"
         /\ jobs[1].remaining_runs # Some(0)
         /\ registered[1].remaining_runs
              \in {None} \cup {Some(n) : n \in 0..MaxTicks}
         /\ Firings(1) = k

\* the job has made more than k firings, or a panic ended the ticking
FiredAgain(k) ==
    IF jobs = << >> THEN FALSE ELSE Firings(1) > k \/ aborted # "no"

\* a repeat(N) job before the loop's first tick, N firings within the horizon
Limited(N) ==
    IF jobs = << >> THEN FALSE
    ELSE /\ Covered(1, N) /\ aborted = "no"
         /\ main_loop = None
         /\ registered[1].remaining_runs = Some(N)

\* the job is exhausted after exactly N firings, or a panic ended the ticking
Exhausted(N) ==
    IF jobs = << >> THEN FALSE
    ELSE \/ jobs[1].remaining_runs = Some(0) /\ Firings(1) = N
         \/ aborted # "no"

\* C20: while the loop keeps ticking with now increasing, a job with no
\* weekday and no at_time that is not exhausted fires again after each of its
\* firings, and one built with repeat(N), N >= 0, reaches remaining_runs = 0
\* having fired exactly N times.  (A tick that panics ends the ticking.)
C20_FiresAgain ==
    /\ \A k \in 0..MaxTicks : Awaiting(k) ~> FiredAgain(k)
    /\ \A N \in 0..MaxTicks : Limited(N) ~> Exhausted(N)

\* an every(3).seconds() job without repeat after its third firing, and one
\* with repeat(2) exhausted after its second
C20_Witness ==
    /\ aborted = "no" /\ Len(jobs) = 1
    /\ jobs[1].interval = U64(3) /\ 1 \in fired
    /\ \/ jobs[1].remaining_runs = None /\ Firings(1) = 3
       \/ jobs[1].remaining_runs = Some(0) /\ Firings(1) = 2

====
